---- MODULE Spec2Model ----
(***************************************************************************)
(* Model of src/scraper.py: the content locator (extract_main_content),    *)
(* the inline renderer (inline_to_markdown), the block renderer            *)
(* (block_to_markdown) and the document assembler (html_to_markdown).      *)
(*                                                                         *)
(* A Python str is a sequence of one-character strings.  A parse tree node *)
(* is either a NavigableString, [string |-> str], or a Tag,                *)
(* [name |-> tag name, attrs |-> attribute record, children |-> sequence]. *)
(* The BeautifulSoup object is a Tag named "[document]".                   *)
(***************************************************************************)
EXTENDS Integers, Sequences, FiniteSets, TLC

VARIABLES pc, soup, content, idx, blocks, markdown, node, indent_level, result

vars == <<pc, soup, content, idx, blocks, markdown, node, indent_level, result>>

-----------------------------------------------------------------------------
(* Python str helpers *)

Whitespace == {" ", "\n", "\t"}

\* the grave accent character (U+0060), which a TLA+ string cannot hold
backtick == "GRAVE"

RECURSIVE lstrip(_)
lstrip(s) ==
    IF s # <<>> /\ Head(s) \in Whitespace THEN lstrip(Tail(s)) ELSE s

RECURSIVE rstrip(_)
rstrip(s) ==
    IF s # <<>> /\ s[Len(s)] \in Whitespace
    THEN rstrip(SubSeq(s, 1, Len(s) - 1))
    ELSE s

strip(s) == lstrip(rstrip(s))

\* ''.join(parts)
RECURSIVE concat(_)
concat(parts) ==
    IF parts = <<>> THEN <<>> ELSE Head(parts) \o concat(Tail(parts))

\* sep.join(parts)
RECURSIVE join(_, _)
join(sep, parts) ==
    IF parts = <<>> THEN <<>>
    ELSE IF Len(parts) = 1 THEN parts[1]
    ELSE parts[1] \o sep \o join(sep, Tail(parts))

\* filter(None, lines): the non-empty strings of lines, in order
filter_none(lines) == SelectSeq(lines, LAMBDA l : l # <<>>)

\* s * n
RECURSIVE repeat(_, _)
repeat(s, n) == IF n = 0 THEN <<>> ELSE s \o repeat(s, n - 1)

Digit == <<"0", "1", "2", "3", "4", "5", "6", "7", "8", "9">>

\* str(n) for n >= 0
RECURSIVE str_int(_)
str_int(n) ==
    IF n < 10 THEN <<Digit[n + 1]>>
    ELSE str_int(n \div 10) \o <<Digit[(n % 10) + 1]>>

\* s.split("\n")
RECURSIVE split_lines(_)
split_lines(s) ==
    IF \A i \in 1..Len(s) : s[i] # "\n" THEN <<s>>
    ELSE LET k == CHOOSE i \in 1..Len(s) :
                      s[i] = "\n" /\ \A j \in 1..(i - 1) : s[j] # "\n"
         IN  <<SubSeq(s, 1, k - 1)>> \o split_lines(SubSeq(s, k + 1, Len(s)))

-----------------------------------------------------------------------------
(* bs4 tree helpers *)

NavigableString(s) == [string |-> s]
NoAttrs == [k \in {} |-> <<>>]
Tag(name, attrs, children) ==
    [name |-> name, attrs |-> attrs, children |-> children]

IsNavigableString(n) == "string" \in DOMAIN n
IsTag(n) == "name" \in DOMAIN n

\* node.get(key, default)
get(n, key, default) ==
    IF key \in DOMAIN n.attrs THEN n.attrs[key] ELSE default

\* the nodes of a sequence of sibling trees in document order
RECURSIVE document_order(_)
document_order(trees) ==
    IF trees = <<>> THEN <<>>
    ELSE LET n == Head(trees)
         IN  <<n>> \o (IF IsTag(n) THEN document_order(n.children) ELSE <<>>)
                 \o document_order(Tail(trees))

\* node.descendants: all nodes below n in document order
descendants(n) ==
    IF IsNavigableString(n) THEN <<>> ELSE document_order(n.children)

\* node.find_all(names): the descendant tags whose name is in names
find_all(n, names) ==
    SelectSeq(descendants(n), LAMBDA d : IsTag(d) /\ d.name \in names)

\* node.find_all(names, recursive=False)
find_all_direct(n, names) ==
    SelectSeq(n.children, LAMBDA d : IsTag(d) /\ d.name \in names)

\* the descendant strings of n in document order
strings(n) ==
    LET ds == SelectSeq(descendants(n), IsNavigableString)
    IN  [i \in 1..Len(ds) |-> ds[i].string]

\* node.get_text(separator): (a NavigableString yields its own text)
get_text(n, separator) ==
    IF IsNavigableString(n) THEN n.string ELSE join(separator, strings(n))

\* node.get_text(strip=True): every string stripped, empty ones skipped
get_text_strip(n) ==
    IF IsNavigableString(n) THEN strip(n.string)
    ELSE LET ss == strings(n)
         IN  concat(filter_none([i \in 1..Len(ss) |-> strip(ss[i])]))

\* A reference to a Tag of the tree is the path to it from the root, the
\* child numbers on the way down.  None is the empty path: the root is never
\* the result of a search below it.
None == <<>>

RECURSIVE node_at(_, _)
node_at(n, path) ==
    IF path = <<>> THEN n ELSE node_at(n.children[Head(path)], Tail(path))

\* the tag has the name and every attribute value asked for
matches(t, name, attrs) ==
    /\ t.name = name
    /\ \A k \in DOMAIN attrs : k \in DOMAIN t.attrs /\ t.attrs[k] = attrs[k]

\* the first match in document order among children[i..] and the nodes
\* below them
RECURSIVE find_from(_, _, _, _)
find_from(children, i, name, attrs) ==
    IF i > Len(children) THEN None
    ELSE LET c == children[i]
             below == IF IsTag(c) THEN find_from(c.children, 1, name, attrs)
                      ELSE None
         IN  IF IsTag(c) /\ matches(c, name, attrs) THEN <<i>>
             ELSE IF below # None THEN <<i>> \o below
             ELSE find_from(children, i + 1, name, attrs)

\* soup.find(name, **attrs): the first tag below n that matches, or None
find(n, name, attrs) == find_from(n.children, 1, name, attrs)


-----------------------------------------------------------------------------
(* inline_to_markdown *)

\* link_to_markdown without the substitution for an empty text
link_to_markdown_no_substitute(href, text) ==
    IF href # <<>>
    THEN <<"[">> \o text \o <<"]", "(">> \o href \o <<")">>
    ELSE text

\* the "a" rule, from the stripped href and the stripped rendering of the
\* children
link_to_markdown(href, text) ==
    LET text2 == IF text = <<>>
                 THEN (IF href # <<>> THEN href ELSE <<"l", "i", "n", "k">>)
                 ELSE text
    IN  IF href # <<>>
        THEN <<"[">> \o text2 \o <<"]", "(">> \o href \o <<")">>
        ELSE text2

RECURSIVE inline_to_markdown(_)
inline_to_markdown(n) ==
    IF IsNavigableString(n) THEN n.string
    ELSE LET inner == concat([i \in 1..Len(n.children) |->
                                 inline_to_markdown(n.children[i])])
         IN  CASE n.name \in {"strong", "b"} -> <<"*", "*">> \o inner \o <<"*", "*">>
               [] n.name \in {"em", "i"} -> <<"*">> \o inner \o <<"*">>
               [] n.name = "code" -> <<backtick>> \o get_text_strip(n) \o <<backtick>>
               [] n.name = "a" ->
                      link_to_markdown(strip(get(n, "href", <<>>)), strip(inner))
               [] n.name = "br" -> <<"\n">>
               [] OTHER -> inner

-----------------------------------------------------------------------------
(* block_to_markdown *)

Headings == {"h1", "h2", "h3", "h4", "h5", "h6"}

\* int(node.name[1])
heading_level(name) ==
    CHOOSE l \in 1..6 : name = [k \in 1..6 |->
                                   <<"h1", "h2", "h3", "h4", "h5", "h6">>[k]][l]

\* "    " * indent_level
indent_of(level) == repeat(<<" ", " ", " ", " ">>, level)

\* the bullet of the idx-th item
bullet_of(is_ordered, i) ==
    IF is_ordered THEN str_int(i) \o <<".", " ">> ELSE <<"-", " ">>

\* the line of one item: indent + bullet + ''.join(content_parts).strip()
item_line(indent, bullet, content_parts) ==
    indent \o bullet \o strip(concat(content_parts))

\* the lines of a table from its rows of cells
table_lines(table_data) ==
    IF table_data # <<>>
    THEN LET header == table_data[1]
             separator == [k \in 1..Len(header) |-> <<"-", "-", "-">>]
         IN  <<join(<<" ", "|", " ">>, header),
               join(<<" ", "|", " ">>, separator)>>
             \o [r \in 1..(Len(table_data) - 1) |->
                    join(<<" ", "|", " ">>, table_data[r + 1])]
             \o << <<>> >>
    ELSE <<>>

\* join_lines that keeps the empty strings of lines
join_lines_unfiltered(lines) == join(<<"\n">>, lines)

\* the return value: "\n".join(filter(None, lines))
join_lines(lines) == join(<<"\n">>, filter_none(lines))

RECURSIVE block_to_markdown(_, _)
block_to_markdown(n, level) ==
    LET indent == indent_of(level)
        lines ==
          CASE n.name \in Headings ->
                 << repeat(<<"#">>, heading_level(n.name)) \o <<" ">>
                    \o strip(inline_to_markdown(n)) \o <<"\n">> >>
            [] n.name = "p" ->
                 LET text == strip(inline_to_markdown(n))
                 IN  IF text # <<>> THEN <<text \o <<"\n">>>> ELSE <<>>
            [] n.name \in {"ul", "ol"} ->
                 LET is_ordered == n.name = "ol"
                     items == find_all_direct(n, {"li"})
                     part(child) ==
                       IF IsNavigableString(child) THEN child.string
                       ELSE IF child.name \in {"ul", "ol"}
                       THEN LET nested == block_to_markdown(child, level + 1)
                            IN  IF nested # <<>> THEN <<"\n">> \o nested
                                ELSE <<>>
                       ELSE inline_to_markdown(child)
                     content_parts(li) ==
                       [c \in 1..Len(li.children) |-> part(li.children[c])]
                 IN  [i \in 1..Len(items) |->
                        item_line(indent, bullet_of(is_ordered, i),
                                  content_parts(items[i]))]
                     \o << <<>> >>
            [] n.name = "table" ->
                 LET rows == find_all(n, {"tr"})
                     cells(row) == find_all(row, {"th", "td"})
                     table_data ==
                       [r \in 1..Len(rows) |->
                          [c \in 1..Len(cells(rows[r])) |->
                             strip(inline_to_markdown(cells(rows[r])[c]))]]
                 IN  table_lines(table_data)
            [] n.name = "pre" ->
                 LET code_text == rstrip(get_text(n, <<"\n">>))
                 IN  IF code_text # <<>>
                     THEN << <<backtick, backtick, backtick, "\n">> \o code_text
                             \o <<"\n", backtick, backtick, backtick, "\n">> >>
                     ELSE <<>>
            [] OTHER ->
                 concat([c \in 1..Len(n.children) |->
                    LET child == n.children[c]
                    IN  IF IsTag(child)
                        THEN <<block_to_markdown(child, level)>>
                        ELSE LET text == strip(child.string)
                             IN  IF text # <<>>
                                 THEN <<indent \o text \o <<"\n">>>>
                                 ELSE <<>>])
    IN  join_lines(lines)

-----------------------------------------------------------------------------
(* extract_main_content *)

\* candidates_of with the third search made for another tag name
candidates_of_section(s) ==
    << find(s, "article", NoAttrs),
       find(s, "main", NoAttrs),
       find(s, "section", [id |-> "content"]),
       find(s, "body", NoAttrs) >>

\* the four candidates, each a reference to a Tag or None
candidates_of(s) ==
    << find(s, "article", NoAttrs),
       find(s, "main", NoAttrs),
       find(s, "div", [id |-> "content"]),
       find(s, "body", NoAttrs) >>

\* first_candidate that keeps the last candidate found instead of the first
first_candidate_last(candidates) ==
    IF \E k \in 1..Len(candidates) : candidates[k] # None
    THEN candidates[CHOOSE k \in 1..Len(candidates) :
                        /\ candidates[k] # None
                        /\ \A j \in (k + 1)..Len(candidates) : candidates[j] = None]
    ELSE None

\* first_candidate that stops one candidate early
first_candidate_short(candidates) ==
    IF \E k \in 1..(Len(candidates) - 1) : candidates[k] # None
    THEN candidates[CHOOSE k \in 1..(Len(candidates) - 1) :
                        /\ candidates[k] # None
                        /\ \A j \in 1..(k - 1) : candidates[j] = None]
    ELSE None

\* the first candidate that is not None; None when the loop falls through
\* to the raise
first_candidate(candidates) ==
    IF \E k \in 1..Len(candidates) : candidates[k] # None
    THEN candidates[CHOOSE k \in 1..Len(candidates) :
                        /\ candidates[k] # None
                        /\ \A j \in 1..(k - 1) : candidates[j] = None]
    ELSE None

extract_main_content(s) == first_candidate(candidates_of(s))

-----------------------------------------------------------------------------
(* html_to_markdown *)

\* textwrap.dedent over lines of spaces and text: lines of whitespace only
\* become empty, the common leading whitespace of the others is removed
leading(l) ==
    IF \A i \in 1..Len(l) : l[i] \in {" ", "\t"} THEN Len(l)
    ELSE (CHOOSE i \in 1..Len(l) :
              l[i] \notin {" ", "\t"} /\ \A j \in 1..(i - 1) : l[j] \in {" ", "\t"}) - 1

is_blank(l) == \A i \in 1..Len(l) : l[i] \in {" ", "\t"}

dedent(text) ==
    LET ls == split_lines(text)
        norm == [i \in 1..Len(ls) |-> IF is_blank(ls[i]) THEN <<>> ELSE ls[i]]
        full == {i \in 1..Len(norm) : norm[i] # <<>>}
        first == CHOOSE i \in full : \A j \in full : i <= j
        shortest == CHOOSE i \in full :
                        \A j \in full : leading(norm[i]) <= leading(norm[j])
        \* the longest common prefix of the lines' leading whitespace
        common(k) == \A i \in full :
                        SubSeq(norm[i], 1, k) = SubSeq(norm[first], 1, k)
        margin == IF full = {} THEN 0
                  ELSE CHOOSE k \in 0..leading(norm[shortest]) :
                           /\ common(k)
                           /\ k < leading(norm[shortest]) => ~common(k + 1)
    IN  join(<<"\n">>,
             [i \in 1..Len(norm) |->
                 IF norm[i] = <<>> THEN <<>>
                 ELSE SubSeq(norm[i], margin + 1, Len(norm[i]))])

\* finish without the strip
finish_unstripped(md) == dedent(md) \o <<"\n">>

\* the return value: textwrap.dedent(markdown).strip() + "\n"
finish(md) == strip(dedent(md)) \o <<"\n">>

\* the blocks list after the loop over content.children
RECURSIVE blocks_of(_)
blocks_of(children) ==
    IF children = <<>> THEN <<>>
    ELSE LET child == Head(children)
             md == IF IsTag(child) THEN block_to_markdown(child, 0) ELSE <<>>
         IN  (IF md # <<>> THEN <<md>> ELSE <<>>) \o blocks_of(Tail(children))

\* html_to_markdown as one function of the parse tree: None stands for the
\* ValueError of extract_main_content reaching the caller
html_to_markdown(s) ==
    LET c == extract_main_content(s)
    IN  IF c = None THEN None
        ELSE finish(join(<<"\n">>, blocks_of(node_at(s, c).children)))

-----------------------------------------------------------------------------
(* Bounds of the model *)

\* longest href value of an "a" element
MaxText == 2
\* most children of an inline element given to inline_to_markdown
MaxInline == 2
\* most children of the content container, and of a container inside it
MaxBlocks == 2
\* most elements of a document given to extract_main_content
MaxNodes == 3
\* most items of a list and of a nested list
MaxItems == 2
\* most rows of a table, and most cells of a row
MaxRows == 2
MaxCells == 2
\* deepest indent_level block_to_markdown is called with
MaxIndent == 1

-----------------------------------------------------------------------------
(* Parse trees the functions are applied to *)

T(s) == NavigableString(s)
E(name, children) == Tag(name, NoAttrs, children)

SeqsUpTo(S, n) == UNION {[1..k -> S] : k \in 0..n}

Hrefs == UNION {[1..k -> {"h", " "}] : k \in 0..MaxText}

InlineLeaves ==
    { T(<<"x">>), T(<<" ">>), T(<<" ", "x", " ">>),
      E("b", <<T(<<"x">>)>>), E("code", <<T(<<" ", "x">>)>>),
      E("br", <<>>), E("span", <<T(<<" ">>)>>), E("a", <<>>) }

\* the "a" elements inline_to_markdown is applied to
InlineInputs ==
    { Tag("a", attrs, kids) :
        attrs \in {NoAttrs, [id |-> "content"]} \cup {[href |-> h] : h \in Hrefs},
        kids \in SeqsUpTo(InlineLeaves, MaxInline) }

P(kids) == E("p", kids)
LI(kids) == E("li", kids)
TD(kids) == E("td", kids)
TH(kids) == E("th", kids)
TR(kids) == E("tr", kids)
X == T(<<"x">>)
SP == T(<<" ">>)

\* blocks of every kind, with the ones that render to the empty string
BasicBlocks ==
    { X, SP,
      E("h2", <<X>>),
      P(<<>>), P(<<X>>), P(<<X, E("br", <<>>), E("br", <<>>), X>>),
      E("ul", <<>>), E("ol", <<LI(<<X>>), LI(<<>>)>>),
      E("ul", <<LI(<<X, E("ul", <<LI(<<X>>)>>)>>)>>),
      E("table", <<>>),
      E("table", <<TR(<<TH(<<X>>), TH(<<X>>)>>), TR(<<TD(<<X>>), TD(<<X>>)>>)>>),
      E("table", <<TR(<<TD(<<>>), TD(<<X>>)>>), TR(<<TD(<<>>), TD(<<X>>)>>)>>),
      E("pre", <<SP>>), E("pre", <<T(<<" ", "x">>)>>),
      E("div", <<SP, P(<<>>)>>),
      E("section", <<P(<<X>>), P(<<>>), E("ul", <<LI(<<X>>)>>)>>) }

\* the labels of the elements a document is searched for
Labels ==
    { <<"article", NoAttrs>>, <<"main", NoAttrs>>, <<"body", NoAttrs>>,
      <<"div", NoAttrs>>, <<"div", [id |-> "content"]>>,
      <<"section", [id |-> "content"]>> }

\* the sequences of trees with n elements in all, labelled by Labels
RECURSIVE Forests(_)
Forests(n) ==
    IF n = 0 THEN {<<>>}
    ELSE UNION { { <<Tag(l[1], l[2], f1)>> \o f2 :
                     l \in Labels, f1 \in Forests(k), f2 \in Forests(n - 1 - k) } :
                 k \in 0..(n - 1) }

Document(tops) == E("[document]", tops)

\* documents that differ in which candidate containers exist and where
LocatorDocuments ==
    UNION { {Document(f) : f \in Forests(n)} : n \in 0..MaxNodes }

\* documents that hold any of the four candidates and an element of another
\* name with id="content", each at most once, side by side in every order,
\* at the top or inside an html element
Orderings(S) ==
    {f \in [1..Cardinality(S) -> S] : \A i, j \in DOMAIN f : f[i] = f[j] => i = j}

CandidateDocuments ==
    UNION { UNION { { Document([i \in DOMAIN f |-> Tag(f[i][1], f[i][2], <<>>)]),
                      Document(<<E("html", [i \in DOMAIN f |->
                                               Tag(f[i][1], f[i][2], <<>>)])>>) } :
                    f \in Orderings(S) } :
            S \in SUBSET (Labels \ {<<"div", NoAttrs>>}) }

\* documents that differ in the children of the content container
ContentDocuments ==
    { Document(<<E("html", <<E("body", kids)>>)>>) :
        kids \in SeqsUpTo(BasicBlocks, MaxBlocks) }

\* documents whose content container holds one generic container
ContainerDocuments ==
    { Document(<<E("body", <<E("div", kids)>>)>>) :
        kids \in SeqsUpTo(BasicBlocks, MaxBlocks) }

Documents ==
    LocatorDocuments \cup CandidateDocuments \cup ContentDocuments
    \cup ContainerDocuments

\* lists whose items hold text, inline elements and nested lists
NestedLists ==
    { E(name, [i \in 1..k |-> LI(<<X>>)]) :
        name \in {"ul", "ol"}, k \in 1..MaxItems }

ListItems ==
    { LI(lead \o nested) :
        lead \in {<<>>, <<X>>},
        nested \in {<<>>} \cup {<<l>> : l \in NestedLists} }

ListInputs ==
    { E(name, items) :
        name \in {"ul", "ol"},
        items \in SeqsUpTo(ListItems, MaxItems) }

\* tables whose rows hold zero or more th and td cells
Cells == {TH(<<T(<<" ", "x">>)>>), TD(<<>>)}
Rows == {TR(cells) : cells \in SeqsUpTo(Cells, MaxCells)}

TableInputs ==
    { E("table", rows) : rows \in SeqsUpTo(Rows, MaxRows) } \cup
    { E("table", <<E("tbody", rows)>>) : rows \in SeqsUpTo(Rows, MaxRows) }

\* the elements block_to_markdown is applied to
BlockInputs ==
    {b \in BasicBlocks : IsTag(b)} \cup ListInputs \cup TableInputs

NoNode == T(<<>>)

-----------------------------------------------------------------------------
(* html_to_markdown, step by step *)

Init ==
    /\ pc = "start"
    /\ soup \in Documents
    /\ content = None
    /\ idx = 0
    /\ blocks = <<>>
    /\ markdown = <<>>
    /\ result = <<>>
    /\ node = NoNode
    /\ indent_level = 0

\* line 112: a candidate exists and is returned
ExtractMainContent ==
    /\ pc = "start"
    /\ extract_main_content(soup) # None
    /\ content' = extract_main_content(soup)
    /\ idx' = 1
    /\ pc' = "loop"
    /\ UNCHANGED <<soup, blocks, markdown, result, node, indent_level>>

\* line 112: no candidate exists, the ValueError leaves html_to_markdown
ExtractMainContentRaises ==
    /\ pc = "start"
    /\ extract_main_content(soup) = None
    /\ pc' = "ValueError"
    /\ UNCHANGED <<soup, content, idx, blocks, markdown, result, node, indent_level>>

content_children == node_at(soup, content).children

\* lines 114-118: one iteration of the loop over content.children
LoopChild ==
    /\ pc = "loop"
    /\ idx <= Len(content_children)
    /\ LET child == content_children[idx]
           md == IF IsTag(child) THEN block_to_markdown(child, 0) ELSE <<>>
       IN  blocks' = IF md # <<>> THEN Append(blocks, md) ELSE blocks
    /\ idx' = idx + 1
    /\ UNCHANGED <<pc, soup, content, markdown, result, node, indent_level>>

\* lines 119-120: the loop is over, the blocks are joined and returned
Return ==
    /\ pc = "loop"
    /\ idx > Len(content_children)
    /\ markdown' = join(<<"\n">>, blocks)
    /\ result' = finish(markdown')
    /\ pc' = "done"
    /\ UNCHANGED <<soup, content, idx, blocks, node, indent_level>>

Next == ExtractMainContent \/ ExtractMainContentRaises \/ LoopChild \/ Return

Spec == Init /\ [][Next]_vars

-----------------------------------------------------------------------------
(* block_to_markdown applied to one element *)

InitBlock ==
    /\ pc = "call"
    /\ node \in BlockInputs
    /\ indent_level \in 0..MaxIndent
    /\ result = <<>>
    /\ soup = NoNode
    /\ content = None
    /\ idx = 0
    /\ blocks = <<>>
    /\ markdown = <<>>

BlockToMarkdown ==
    /\ pc = "call"
    /\ result' = block_to_markdown(node, indent_level)
    /\ pc' = "returned"
    /\ UNCHANGED <<soup, content, idx, blocks, markdown, node, indent_level>>

NextBlock == BlockToMarkdown

SpecBlock == InitBlock /\ [][NextBlock]_vars

-----------------------------------------------------------------------------
(* inline_to_markdown applied to one "a" element *)

InitInline ==
    /\ pc = "call"
    /\ node \in InlineInputs
    /\ indent_level = 0
    /\ result = <<>>
    /\ soup = NoNode
    /\ content = None
    /\ idx = 0
    /\ blocks = <<>>
    /\ markdown = <<>>

InlineToMarkdown ==
    /\ pc = "call"
    /\ result' = inline_to_markdown(node)
    /\ pc' = "returned"
    /\ UNCHANGED <<soup, content, idx, blocks, markdown, node, indent_level>>

NextInline == InlineToMarkdown

SpecInline == InitInline /\ [][NextInline]_vars

-----------------------------------------------------------------------------
(* Document order, for the properties of extract_main_content *)

\* the references to all tags below n
RECURSIVE tag_paths(_)
tag_paths(n) ==
    UNION { IF IsTag(n.children[i])
            THEN {<<i>>} \cup {<<i>> \o q : q \in tag_paths(n.children[i])}
            ELSE {} : i \in 1..Len(n.children) }

\* p comes before q in document order
Before(p, q) ==
    LET m == IF Len(p) < Len(q) THEN Len(p) ELSE Len(q)
        d == {k \in 1..m : p[k] # q[k]}
    IN  IF d = {} THEN Len(p) < Len(q)
        ELSE p[CHOOSE k \in d : \A j \in d : k <= j]
               < q[CHOOSE k \in d : \A j \in d : k <= j]

Is(kind, t) ==
    CASE kind = "#content" -> get(t, "id", "") = "content"
      [] kind = "div#content" -> t.name = "div" /\ get(t, "id", "") = "content"
      [] OTHER -> t.name = kind

Exists(s, kind) == \E p \in tag_paths(s) : Is(kind, node_at(s, p))

First(s, kind) ==
    CHOOSE p \in tag_paths(s) :
        /\ Is(kind, node_at(s, p))
        /\ \A q \in tag_paths(s) : Is(kind, node_at(s, q)) => q = p \/ Before(p, q)

\* the first tag of the first kind of the order that exists at all, or None
FirstExisting(s, order) ==
    IF \E k \in 1..Len(order) : Exists(s, order[k])
    THEN First(s, order[CHOOSE k \in 1..Len(order) :
                            /\ Exists(s, order[k])
                            /\ \A j \in 1..(k - 1) : ~Exists(s, order[j])])
    ELSE None

Located == pc \in {"loop", "done"}

-----------------------------------------------------------------------------
(* Properties *)

\* C1 as stated: the container returned is the first existing one of article,
\* main, the first element of any name with id="content", body.
C1_AnyTagOrder ==
    Located => content = FirstExisting(soup, <<"article", "main", "#content", "body">>)

\* C1 amended: the container returned is the first existing one of article,
\* main, the first div with id="content", body; each is the first of its kind
\* in document order, whichever of the others are also present.
C1_FirstCandidateInOrder ==
    Located =>
        content = FirstExisting(soup, <<"article", "main", "div#content", "body">>)

\* all four candidates are present, the article is not the first element of the
\* document, and the article is returned
C1_Witness ==
    /\ Located
    /\ \A kind \in {"article", "main", "div#content", "body"} : Exists(soup, kind)
    /\ content # <<1>>
    /\ node_at(soup, content).name = "article"

\* C5 as stated: without article and main, an element of another name than div
\* with id="content" is returned although a body exists.
C5_AnyTagWithIdContent ==
    ( /\ Located
      /\ ~Exists(soup, "article") /\ ~Exists(soup, "main")
      /\ Exists(soup, "#content") /\ Exists(soup, "body")
      /\ node_at(soup, First(soup, "#content")).name # "div" )
    => content = First(soup, "#content")

\* C5 amended: without article and main, the first div with id="content" is
\* returned when there is one, and otherwise body is, also when an element of
\* another name has id="content".
C5_OnlyDivWithIdContent ==
    (Located /\ ~Exists(soup, "article") /\ ~Exists(soup, "main")) =>
        /\ Exists(soup, "div#content") => content = First(soup, "div#content")
        /\ (~Exists(soup, "div#content") /\ Exists(soup, "body")) =>
               content = First(soup, "body")

\* a section with id="content" comes before the body, and the body is returned
C5_Witness ==
    /\ Located
    /\ ~Exists(soup, "article") /\ ~Exists(soup, "main")
    /\ ~Exists(soup, "div#content")
    /\ Exists(soup, "#content") /\ Exists(soup, "body")
    /\ Before(First(soup, "#content"), First(soup, "body"))
    /\ content = First(soup, "body")

Produced == <<content, idx, blocks, markdown, result>>

\* C2 as stated: html_to_markdown fails exactly when the document has no
\* article, no main, no element with id="content" and no body.
C2_FailsIffNoAnyTagCandidate ==
    pc # "start" =>
        (pc = "ValueError" <=>
            \A kind \in {"article", "main", "#content", "body"} : ~Exists(soup, kind))

\* C2 amended: html_to_markdown fails exactly when the document has no article,
\* no main, no div with id="content" and no body; then nothing has been
\* produced, and otherwise a string ending in a newline is returned.
C2_FailsIffNoCandidate ==
    pc # "start" =>
        /\ pc = "ValueError" <=>
              \A kind \in {"article", "main", "div#content", "body"} :
                  ~Exists(soup, kind)
        /\ pc = "ValueError" => Produced = <<None, 0, <<>>, <<>>, <<>>>>
        /\ pc = "done" => result # <<>> /\ result[Len(result)] = "\n"

\* the failure happens on a document that has elements, one of them a section
\* with id="content"
C2_Witness ==
    /\ pc = "ValueError"
    /\ Exists(soup, "#content")
    /\ Exists(soup, "div")

StripNewlines(s) ==
    LET keep == {i \in 1..Len(s) : s[i] # "\n"}
    IN  IF keep = {} THEN <<>>
        ELSE SubSeq(s, CHOOSE i \in keep : \A j \in keep : i <= j,
                       CHOOSE i \in keep : \A j \in keep : i >= j)

\* C3: in the joined document (whose lines dedent and strip neither add nor
\* remove between two blocks) consecutive non-empty blocks are separated by
\* exactly one blank line.
C3_OneBlankLineBetweenBlocks ==
    pc = "done" =>
        StripNewlines(markdown) =
            join(<<"\n", "\n">>, [i \in 1..Len(blocks) |-> StripNewlines(blocks[i])])

\* C4: the returned string has no leading whitespace and ends with exactly one
\* newline after a non-whitespace character, or is a single newline when no
\* block rendered non-empty.
C4_StrippedWithOneNewline ==
    pc = "done" =>
        IF blocks = <<>> THEN result = <<"\n">>
        ELSE /\ Len(result) >= 2
             /\ result[1] \notin Whitespace
             /\ result[Len(result)] = "\n"
             /\ result[Len(result) - 1] \notin Whitespace

\* the joined blocks begin with whitespace and the last block ends with a newline
C4_Witness ==
    /\ pc = "done"
    /\ Len(blocks) >= 2
    /\ markdown[1] \in Whitespace
    /\ markdown[Len(markdown)] = "\n"

\* C6: the block of a list with an item and of a table with a row ends with a
\* newline.
C6_ListAndTableEndWithNewline ==
    ( /\ pc = "returned"
      /\ \/ node.name \in {"ul", "ol"} /\ find_all_direct(node, {"li"}) # <<>>
         \/ node.name = "table" /\ find_all(node, {"tr"}) # <<>> )
    => result # <<>> /\ result[Len(result)] = "\n"

HasPrefix(s, pre) == Len(pre) <= Len(s) /\ SubSeq(s, 1, Len(pre)) = pre

\* C7: every item of a list nested in an item rendered at indent level n is on
\* a line of its own below the line of the item, and that line starts with
\* 4*(n+1) spaces and the bullet of the nested item.
C7_NestedItemsOnIndentedLines ==
    (pc = "returned" /\ node.name \in {"ul", "ol"}) =>
        LET items == find_all_direct(node, {"li"})
            ls == split_lines(result)
        IN  \A i \in 1..Len(items) :
              \A c \in 1..Len(items[i].children) :
                LET child == items[i].children[c]
                IN  (IsTag(child) /\ child.name \in {"ul", "ol"}) =>
                      \A j \in 1..Len(find_all_direct(child, {"li"})) :
                        \E p, q \in 1..Len(ls) :
                          /\ p < q
                          /\ HasPrefix(ls[p], indent_of(indent_level)
                                 \o bullet_of(node.name = "ol", i))
                          /\ HasPrefix(ls[q], indent_of(indent_level + 1)
                                 \o bullet_of(child.name = "ol", j))

\* the line of a row: its th and td cells rendered inline, stripped, joined
RowLine(row) ==
    LET cells == find_all(row, {"th", "td"})
    IN  join(<<" ", "|", " ">>,
             [c \in 1..Len(cells) |-> strip(inline_to_markdown(cells[c]))])

\* C9: a table with rows yields the line of its first row, a separator line
\* with one "---" per cell of the first row, and the line of every other row,
\* one more line than it has rows; a table without rows yields nothing.
C9_OneLinePerRowPlusSeparator ==
    (pc = "returned" /\ node.name = "table") =>
        LET rows == find_all(node, {"tr"})
            ls == split_lines(result)
            expected ==
              <<RowLine(rows[1]),
                join(<<" ", "|", " ">>,
                     [c \in 1..Len(find_all(rows[1], {"th", "td"})) |->
                         <<"-", "-", "-">>])>>
              \o [r \in 1..(Len(rows) - 1) |-> RowLine(rows[r + 1])]
        IN  IF rows = <<>> THEN result = <<>>
            ELSE /\ Len(ls) >= Len(rows) + 1
                 /\ SubSeq(ls, 1, Len(rows) + 1) = expected

NoEmptyPair(s) ==
    \A i \in 1..(Len(s) - 1) :
        /\ ~(s[i] = "[" /\ s[i + 1] = "]")
        /\ ~(s[i] = "(" /\ s[i + 1] = ")")

\* C8: for an "a" element, with href the stripped href attribute (empty when
\* missing) and text the stripped rendering of the children, the result is
\* [text](href) when both are non-empty, [href](href) when only text is empty,
\* text when only href is empty and "link" when both are; it holds no empty
\* pair of brackets or parentheses.
C8_LinkCases ==
    (pc = "returned" /\ node.name = "a") =>
        LET href == strip(IF "href" \in DOMAIN node.attrs THEN node.attrs.href
                          ELSE <<>>)
            text == strip(concat([i \in 1..Len(node.children) |->
                                     inline_to_markdown(node.children[i])]))
        IN  /\ (text # <<>> /\ href # <<>>) =>
                   result = <<"[">> \o text \o <<"]", "(">> \o href \o <<")">>
            /\ (text = <<>> /\ href # <<>>) =>
                   result = <<"[">> \o href \o <<"]", "(">> \o href \o <<")">>
            /\ (text # <<>> /\ href = <<>>) => result = text
            /\ (text = <<>> /\ href = <<>>) => result = <<"l", "i", "n", "k">>
            /\ NoEmptyPair(result)

\* an "a" whose children render to whitespace only and whose href has text
\* around blanks: the href is the link text
C8_Witness ==
    /\ pc = "returned"
    /\ node.children # <<>>
    /\ "href" \in DOMAIN node.attrs
    /\ node.attrs.href # strip(node.attrs.href)
    /\ result = <<"[">> \o strip(node.attrs.href) \o <<"]", "(">>
                  \o strip(node.attrs.href) \o <<")">>

\* the child renders to the empty string, or is whitespace-only text
RendersEmpty(c) ==
    IF IsTag(c) THEN block_to_markdown(c, 0) = <<>> ELSE strip(c.string) = <<>>

Without(seq, i) == SubSeq(seq, 1, i - 1) \o SubSeq(seq, i + 1, Len(seq))

WithoutChild(n, i) == [n EXCEPT !.children = Without(n.children, i)]

\* the tree n with the node at path replaced
RECURSIVE replace_at(_, _, _)
replace_at(n, path, new) ==
    IF path = <<>> THEN new
    ELSE [n EXCEPT !.children[Head(path)] =
                       replace_at(n.children[Head(path)], Tail(path), new)]

Generic(n) == n.name \notin Headings \cup {"p", "ul", "ol", "table", "pre"}

\* C10: removing a child that renders empty from the content container leaves
\* the result of html_to_markdown unchanged, and removing one from a generic
\* container leaves its block unchanged at every indent level.
C10_EmptyChildrenDropped ==
    pc = "done" =>
        LET container == node_at(soup, content)
        IN  /\ \A i \in 1..Len(container.children) :
                 RendersEmpty(container.children[i]) =>
                   html_to_markdown(
                       replace_at(soup, content, WithoutChild(container, i)))
                     = result
            /\ \A i \in 1..Len(container.children) :
                 LET d == container.children[i]
                 IN  (IsTag(d) /\ Generic(d)) =>
                       \A j \in 1..Len(d.children) :
                         RendersEmpty(d.children[j]) =>
                           \A level \in 0..MaxIndent :
                             block_to_markdown(WithoutChild(d, j), level)
                               = block_to_markdown(d, level)

\* a generic container in the content container holds a child that renders
\* empty between two that do not, and the content container holds an empty
\* block next to a non-empty one
C10_Witness ==
    /\ pc = "done"
    /\ \E i \in 1..Len(content_children) :
         LET d == content_children[i]
         IN  /\ IsTag(d) /\ Generic(d) /\ Len(d.children) >= 3
             /\ IsTag(d.children[2]) /\ RendersEmpty(d.children[2])
             /\ ~RendersEmpty(d.children[1]) /\ ~RendersEmpty(d.children[3])
    /\ \E k \in 1..Len(content_children) :
         IsTag(content_children[k]) /\ RendersEmpty(content_children[k])
    /\ blocks # <<>>

====
